---- MODULE Spec2Model ----
(***************************************************************************)
(* Model of safe-socket's server.js: JWT handshake, tenant-namespaced      *)
(* rooms, the per-socket rate limiter and the "message" router.            *)
(*                                                                         *)
(* JavaScript values are tagged records: every value has a "type" field    *)
(* (the result of typeof, with "null" and "array" kept apart), numbers     *)
(* carry "isInt" and "val", strings carry "val" as a sequence of           *)
(* one-character strings.                                                  *)
(*                                                                         *)
(* socket.io is taken by its documented contract: a packet for which a     *)
(* socket.use middleware calls next(err) is not dispatched to its          *)
(* listener, socket.to(room) reaches every member of the room but the      *)
(* sender, and a closing socket leaves its rooms. An exception thrown by   *)
(* a listener is caught nowhere and ends the process.                      *)
(*                                                                         *)
(* Spec explores every handshake and every "message" argument on short     *)
(* runs with the clock at rest; SpecFlood explores long runs of packets    *)
(* of one client across a rate-limit window boundary; SpecFifo explores    *)
(* runs of several messages of two clients of one channel; SpecRate        *)
(* explores bursts of pings over three windows of the limiter. Events      *)
(* emitted to one connection keep their order (websocket transport).       *)
(***************************************************************************)
EXTENDS Integers, Sequences, FiniteSets, TLC

\* ---------------------------------------------------------------- bounds
MaxConns == 2
MaxEvents == 1
MaxTicks == 1
FloodEvents == 32
MaxInbox == 2
MaxFifoEvents == 3
RateEvents == 62
RateTicks == 3
Burst == 10
Aside == 1

\* ------------------------------------------------------------ JS values
Undef == [type |-> "undefined"]
Null == [type |-> "null"]
Num(n) == [type |-> "number", isInt |-> TRUE, val |-> n]
\* a number that is not an integer (n + 0.5)
Frac(n) == [type |-> "number", isInt |-> FALSE, val |-> n]
Str(s) == [type |-> "string", val |-> s]
Arr(a) == [type |-> "array", val |-> a]
Obj(u, c, d, m) ==
  [type |-> "object", to_user_id |-> u, to_canal_id |-> c,
   to_departamento_id |-> d, message |-> m]

\* Number.isInteger
IsInteger(v) == v.type = "number" /\ v.isInt

\* JS truthiness of the values the model uses
Truthy(v) ==
  CASE v.type = "undefined" -> FALSE
    [] v.type = "null" -> FALSE
    [] v.type = "number" -> ~(v.isInt /\ v.val = 0)
    [] v.type = "string" -> v.val # <<>>
    [] OTHER -> TRUE

\* ------------------------------------------------------- string helpers
Digit(d) == <<"0", "1", "2", "3", "4", "5", "6", "7", "8", "9">>[d + 1]

RECURSIVE NatToStr(_)
NatToStr(n) ==
  IF n < 10 THEN <<Digit(n)>> ELSE NatToStr(n \div 10) \o <<Digit(n % 10)>>

\* String(n) for an integer n
IntToStr(n) == IF n < 0 THEN <<"-">> \o NatToStr(-n) ELSE NatToStr(n)

\* `${v}` in a template literal, for the values that reach the room namer
ToStr(v) ==
  CASE v.type = "string" -> v.val
    [] v.type = "number" /\ v.isInt -> IntToStr(v.val)
    [] v.type = "number" /\ ~v.isInt -> IntToStr(v.val) \o <<".", "5">>
    [] OTHER -> <<"?">>

\* String.prototype.toLowerCase on the model's alphabet
LowerChar(ch) ==
  CASE ch = "A" -> "a"
    [] ch = "B" -> "b"
    [] ch = "W" -> "w"
    [] OTHER -> ch

toLowerCase(s) == [i \in 1..Len(s) |-> LowerChar(s[i])]

IsSpace(ch) == ch = " "

RECURSIVE trimStart(_)
trimStart(s) ==
  IF s # <<>> /\ IsSpace(Head(s)) THEN trimStart(Tail(s)) ELSE s

RECURSIVE trimEnd(_)
trimEnd(s) ==
  IF s # <<>> /\ IsSpace(s[Len(s)]) THEN trimEnd(SubSeq(s, 1, Len(s) - 1)) ELSE s

\* String.prototype.trim
trim(s) == trimEnd(trimStart(s))

\* s.replace(/^www\./, "")
stripWww(s) ==
  IF Len(s) >= 4 /\ SubSeq(s, 1, 4) = <<"w", "w", "w", ".">>
  THEN SubSeq(s, 5, Len(s))
  ELSE s

\* normalizeTenant: null for a falsy or non-string claim
normalizeTenant(tenant) ==
  IF ~Truthy(tenant) \/ tenant.type # "string"
  THEN Null
  ELSE Str(stripWww(toLowerCase(trim(tenant.val))))

\* ---------------------------------------------------------------- rooms
room_tenant(t) == <<"t", ":">> \o t
room_canal(t, id) == <<"t", ":">> \o t \o <<":", "c", "a", "n", "a", "l", ":">> \o ToStr(id)
room_dept(t, id) == <<"t", ":">> \o t \o <<":", "d", "e", "p", "t", ":">> \o ToStr(id)
room_op(t, id) == <<"t", ":">> \o t \o <<":", "o", "p", ":">> \o ToStr(id)
room_user(t, id) == <<"t", ":">> \o t \o <<":", "u", "s", "e", "r", ":">> \o ToStr(id)

\* variant: "some" in place of "every"
isIntArraySome(a) ==
  a.type = "array" /\ \E i \in 1..Len(a.val) : IsInteger(a.val[i])

\* isIntArray
isIntArray(a) ==
  a.type = "array" /\ \A i \in 1..Len(a.val) : IsInteger(a.val[i])

\* Array.prototype.includes for an array of integers
includes(arr, v) == \E i \in 1..Len(arr) : arr[i] = v

\* ------------------------------------------------------------ handshake
NoToken == [type |-> "undefined"]
Jwt(sig, expired, claims) ==
  [type |-> "jwt", sig |-> sig, expired |-> expired, claims |-> claims]
Claims(tenant, sub, role, canais, departamentos, operador_id) ==
  [tenant |-> tenant, sub |-> sub, role |-> role, canais |-> canais,
   departamentos |-> departamentos, operador_id |-> operador_id]
\* socket.handshake: auth.token and the Authorization header
Handshake(auth, authorization) == [auth |-> auth, authorization |-> authorization]

\* auth?.token || headers?.authorization?.replace(/^Bearer\s+/i, "")
handshakeToken(h) == IF h.auth.type # "undefined" THEN h.auth ELSE h.authorization

\* jwt.verify succeeds (otherwise it throws)
jwtVerifies(token) == token.sig = "ok" /\ ~token.expired

\* socket.user built from verified claims
socketUser(claims) ==
  [id |-> claims.sub,
   tenant |-> normalizeTenant(claims.tenant).val,
   role |-> IF Truthy(claims.role) THEN claims.role ELSE Str(<<"u", "s", "e", "r">>),
   canais |-> IF isIntArray(claims.canais) THEN claims.canais.val ELSE <<>>,
   departamentos |->
     IF isIntArray(claims.departamentos) THEN claims.departamentos.val ELSE <<>>,
   operadorId |->
     IF IsInteger(claims.operador_id) THEN claims.operador_id ELSE Null]

\* variant: the subject check comes before the tenant check
authMiddlewareSubFirst(h) ==
  LET token == handshakeToken(h) IN
  IF token.type = "undefined"
  THEN [ok |-> FALSE, log |-> "auth.failed.no_token", err |-> "unauthorized"]
  ELSE IF ~jwtVerifies(token)
  THEN [ok |-> FALSE, log |-> "auth.failed.invalid_jwt", err |-> "unauthorized"]
  ELSE IF ~Truthy(token.claims.sub)
  THEN [ok |-> FALSE, log |-> "auth.failed.user_id_missing", err |-> "sub_missing"]
  ELSE IF ~Truthy(normalizeTenant(token.claims.tenant))
  THEN [ok |-> FALSE, log |-> "auth.failed.tenant_missing", err |-> "tenant_missing"]
  ELSE [ok |-> TRUE, log |-> "", err |-> "", user |-> socketUser(token.claims)]

\* io.use middleware: the log line and the error passed to next ("" = none)
authMiddleware(h) ==
  LET token == handshakeToken(h) IN
  IF token.type = "undefined"
  THEN [ok |-> FALSE, log |-> "auth.failed.no_token", err |-> "unauthorized"]
  ELSE IF ~jwtVerifies(token)
  THEN [ok |-> FALSE, log |-> "auth.failed.invalid_jwt", err |-> "unauthorized"]
  ELSE IF ~Truthy(normalizeTenant(token.claims.tenant))
  THEN [ok |-> FALSE, log |-> "auth.failed.tenant_missing", err |-> "tenant_missing"]
  ELSE IF ~Truthy(token.claims.sub)
  THEN [ok |-> FALSE, log |-> "auth.failed.user_id_missing", err |-> "sub_missing"]
  ELSE [ok |-> TRUE, log |-> "", err |-> "", user |-> socketUser(token.claims)]

NoUser == [type |-> "undefined"]

\* ---------------------------------------------------- connection: joins
isAdmin(u) == u.role = Str(<<"a", "d", "m", "i", "n">>)

\* the rooms the connection handler joins
joinedRooms(u) ==
  {room_tenant(u.tenant), room_user(u.tenant, u.id)}
  \cup (IF Truthy(u.operadorId) THEN {room_op(u.tenant, u.operadorId)} ELSE {})
  \cup {room_canal(u.tenant, u.canais[i]) : i \in 1..Len(u.canais)}
  \cup {room_dept(u.tenant, u.departamentos[i]) : i \in 1..Len(u.departamentos)}

\* --------------------------------------------------------- rate limiter
windowMs == 1000
max == 30

\* the window in force for a packet checked at time t
rlWindowStart(ws, t) == IF t - ws >= windowMs THEN t ELSE ws
\* variant: the count starts again as soon as the clock has moved
rlCountEveryTick(ws, cnt, t) == (IF t - ws >= 1 THEN 0 ELSE cnt) + 1

\* the count after the packet is counted
rlCount(ws, cnt, t) == (IF t - ws >= windowMs THEN 0 ELSE cnt) + 1
\* variant: count >= max in place of count > max
rlAdmitsOffByOne(ws, cnt, t) == ~(rlCount(ws, cnt, t) >= max)

\* next() without an error
rlAdmits(ws, cnt, t) == ~(rlCount(ws, cnt, t) > max)

\* ------------------------------------------------------- message router
MaxMessageLength == 500

\* destructuring ({ to_user_id, ... }) of the first argument
Field(arg, name) == IF arg.type = "object" THEN arg[name] ELSE Undef
\* destructuring undefined or null throws a TypeError
destructureThrows(arg) == arg.type \in {"undefined", "null"}

isPositiveInt(v) == IsInteger(v) /\ v.val > 0

\* variant: the department check logs the denial but does not return
messageChecksDeptFallsThrough(u, arg) ==
  LET to_user_id == Field(arg, "to_user_id")
      to_canal_id == Field(arg, "to_canal_id")
      to_departamento_id == Field(arg, "to_departamento_id")
      message == Field(arg, "message")
  IN
  IF message.type # "string" THEN "message.rejected.invalid_type"
  ELSE IF Len(message.val) > MaxMessageLength THEN "message.rejected.too_long"
  ELSE IF ~IsInteger(to_user_id) /\ ~IsInteger(to_canal_id)
          /\ ~IsInteger(to_departamento_id) /\ ~isAdmin(u)
  THEN "message.rejected.no_target"
  ELSE IF isPositiveInt(to_canal_id)
          /\ ~includes(u.canais, to_canal_id) /\ ~isAdmin(u)
  THEN "message.denied.channel_unauthorized"
  ELSE ""

\* variant: message.length >= 500 in place of message.length > 500
messageChecksLengthInclusive(u, arg) ==
  LET to_user_id == Field(arg, "to_user_id")
      to_canal_id == Field(arg, "to_canal_id")
      to_departamento_id == Field(arg, "to_departamento_id")
      message == Field(arg, "message")
  IN
  IF message.type # "string" THEN "message.rejected.invalid_type"
  ELSE IF Len(message.val) >= MaxMessageLength THEN "message.rejected.too_long"
  ELSE IF ~IsInteger(to_user_id) /\ ~IsInteger(to_canal_id)
          /\ ~IsInteger(to_departamento_id) /\ ~isAdmin(u)
  THEN "message.rejected.no_target"
  ELSE IF isPositiveInt(to_canal_id)
          /\ ~includes(u.canais, to_canal_id) /\ ~isAdmin(u)
  THEN "message.denied.channel_unauthorized"
  ELSE IF isPositiveInt(to_departamento_id)
          /\ ~includes(u.departamentos, to_departamento_id) /\ ~isAdmin(u)
  THEN "message.denied.department_unauthorized"
  ELSE ""

\* variant: the channel and department grants are checked only when the
\* channel or department is the destination that will be resolved
messageChecksDestinationOnly(u, arg) ==
  LET to_user_id == Field(arg, "to_user_id")
      to_canal_id == Field(arg, "to_canal_id")
      to_departamento_id == Field(arg, "to_departamento_id")
      message == Field(arg, "message")
  IN
  IF message.type # "string" THEN "message.rejected.invalid_type"
  ELSE IF Len(message.val) > MaxMessageLength THEN "message.rejected.too_long"
  ELSE IF ~IsInteger(to_user_id) /\ ~IsInteger(to_canal_id)
          /\ ~IsInteger(to_departamento_id) /\ ~isAdmin(u)
  THEN "message.rejected.no_target"
  ELSE IF ~isPositiveInt(to_user_id) /\ isPositiveInt(to_canal_id)
          /\ ~includes(u.canais, to_canal_id) /\ ~isAdmin(u)
  THEN "message.denied.channel_unauthorized"
  ELSE IF ~isPositiveInt(to_user_id) /\ ~isPositiveInt(to_canal_id)
          /\ isPositiveInt(to_departamento_id)
          /\ ~includes(u.departamentos, to_departamento_id) /\ ~isAdmin(u)
  THEN "message.denied.department_unauthorized"
  ELSE ""

\* the validation and authorization checks, in source order: the log line
\* of the first failing check, "" when they all pass
messageChecks(u, arg) ==
  LET to_user_id == Field(arg, "to_user_id")
      to_canal_id == Field(arg, "to_canal_id")
      to_departamento_id == Field(arg, "to_departamento_id")
      message == Field(arg, "message")
  IN
  IF message.type # "string" THEN "message.rejected.invalid_type"
  ELSE IF Len(message.val) > MaxMessageLength THEN "message.rejected.too_long"
  ELSE IF ~IsInteger(to_user_id) /\ ~IsInteger(to_canal_id)
          /\ ~IsInteger(to_departamento_id) /\ ~isAdmin(u)
  THEN "message.rejected.no_target"
  ELSE IF isPositiveInt(to_canal_id)
          /\ ~includes(u.canais, to_canal_id) /\ ~isAdmin(u)
  THEN "message.denied.channel_unauthorized"
  ELSE IF isPositiveInt(to_departamento_id)
          /\ ~includes(u.departamentos, to_departamento_id) /\ ~isAdmin(u)
  THEN "message.denied.department_unauthorized"
  ELSE ""

NoEmitter == <<>>

\* variant: the channel branch is tested before the user branch
resolveEmitterChannelFirst(u, arg) ==
  LET to_user_id == Field(arg, "to_user_id")
      to_canal_id == Field(arg, "to_canal_id")
      to_departamento_id == Field(arg, "to_departamento_id")
  IN
  IF isPositiveInt(to_canal_id) THEN room_canal(u.tenant, to_canal_id)
  ELSE IF isPositiveInt(to_user_id) THEN room_user(u.tenant, to_user_id)
  ELSE IF isPositiveInt(to_departamento_id) THEN room_dept(u.tenant, to_departamento_id)
  ELSE IF isAdmin(u) THEN room_tenant(u.tenant)
  ELSE NoEmitter

\* destination resolution: the room to emit to, NoEmitter for null
resolveEmitter(u, arg) ==
  LET to_user_id == Field(arg, "to_user_id")
      to_canal_id == Field(arg, "to_canal_id")
      to_departamento_id == Field(arg, "to_departamento_id")
  IN
  IF isPositiveInt(to_user_id) THEN room_user(u.tenant, to_user_id)
  ELSE IF isPositiveInt(to_canal_id) THEN room_canal(u.tenant, to_canal_id)
  ELSE IF isPositiveInt(to_departamento_id) THEN room_dept(u.tenant, to_departamento_id)
  ELSE IF isAdmin(u) THEN room_tenant(u.tenant)
  ELSE NoEmitter

\* the outbound payload
buildPayload(u, arg, t) ==
  [from_user_id |-> u.id, message |-> Field(arg, "message"), timestamp |-> t]

\* ---------------------------------------------------------------- state
VARIABLES
  up,           \* the server process is running
  now,          \* Date.now()
  st,           \* per socket: session state
  user,         \* per socket: socket.user
  count,        \* per socket: attachRateLimit's count
  windowStart,  \* per socket: attachRateLimit's windowStart
  rooms,        \* adapter: set of <<room name, socket>> memberships
  inbox,        \* per socket: events emitted to the client, in order
  last,         \* the last handshake or inbound packet and what it did
  nEvents,      \* inbound packets so far
  nTicks        \* clock advances so far

vars == <<up, now, st, user, count, windowStart, rooms, inbox, last, nEvents, nTicks>>

Sockets == 1..MaxConns

Members(r) == {c \in Sockets : <<r, c>> \in rooms}
RoomsOf(c) == {m[1] : m \in {x \in rooms : x[2] = c}}

Init ==
  /\ up = TRUE
  /\ now = 0
  /\ st = [c \in Sockets |-> "Connecting"]
  /\ user = [c \in Sockets |-> NoUser]
  /\ count = [c \in Sockets |-> 0]
  /\ windowStart = [c \in Sockets |-> 0]
  /\ rooms = {}
  /\ inbox = [c \in Sockets |-> <<>>]
  /\ last = [event |-> "none"]
  /\ nEvents = 0
  /\ nTicks = 0

\* variant: the event overtakes the events already sent on the connection
emitToFront(box, ev) == <<ev>> \o box

\* emit on one connection: the event follows, on its websocket transport, the
\* events emitted to the connection before
emitTo(box, ev) == Append(box, ev)

\* the clock advances by d milliseconds
Tick(d) ==
  /\ up
  /\ now' = now + d
  /\ nTicks' = nTicks + 1
  /\ UNCHANGED <<up, st, user, count, windowStart, rooms, inbox, last, nEvents>>

\* variant: no return after next(new Error("sub_missing")), so the middleware
\* goes on to attach socket.user and to call next()
AuthenticateNoReturn(c, h) ==
  LET r == authMiddleware(h)
      through == r.ok \/ r.err = "sub_missing"
  IN
  /\ up
  /\ st[c] = "Connecting"
  /\ \A d \in 1..(c - 1) : st[d] # "Connecting"
  /\ st' = [st EXCEPT ![c] = IF through THEN "Authenticated" ELSE "Refused"]
  /\ user' = [user EXCEPT ![c] =
       IF through THEN socketUser(handshakeToken(h).claims) ELSE NoUser]
  /\ last' = [event |-> "handshake", sid |-> c, h |-> h, log |-> r.log, err |-> r.err]
  /\ UNCHANGED <<up, now, count, windowStart, rooms, inbox, nEvents, nTicks>>

\* io.use: the handshake of socket c presenting h; sockets are numbered in
\* the order their transport connections arrive
Authenticate(c, h) ==
  LET r == authMiddleware(h) IN
  /\ up
  /\ st[c] = "Connecting"
  /\ \A d \in 1..(c - 1) : st[d] # "Connecting"
  /\ st' = [st EXCEPT ![c] = IF r.ok THEN "Authenticated" ELSE "Refused"]
  /\ user' = [user EXCEPT ![c] = IF r.ok THEN r.user ELSE NoUser]
  /\ last' = [event |-> "handshake", sid |-> c, h |-> h, log |-> r.log, err |-> r.err]
  /\ UNCHANGED <<up, now, count, windowStart, rooms, inbox, nEvents, nTicks>>

\* io.on("connection"): limiter attached, rooms joined, "ready" emitted
OnConnection(c) ==
  /\ up
  /\ st[c] = "Authenticated"
  /\ count' = [count EXCEPT ![c] = 0]
  /\ windowStart' = [windowStart EXCEPT ![c] = now]
  /\ rooms' = rooms \cup {<<r, c>> : r \in joinedRooms(user[c])}
  /\ inbox' = [inbox EXCEPT ![c] = emitTo(@,
       [ev |-> "ready",
        data |-> [tenant |-> user[c].tenant, userId |-> user[c].id,
                  role |-> user[c].role]])]
  /\ st' = [st EXCEPT ![c] = "Active"]
  /\ last' = [event |-> "connection", sid |-> c, log |-> "connection.established"]
  /\ UNCHANGED <<up, now, user, nEvents, nTicks>>

\* the limiter middleware's effect on socket c for a packet checked now
RateLimitStep(c) ==
  /\ count' = [count EXCEPT ![c] = rlCount(windowStart[c], count[c], now)]
  /\ windowStart' = [windowStart EXCEPT ![c] = rlWindowStart(windowStart[c], now)]

\* variant: next() is called whatever the count is
AdmittedAlways(c) == TRUE

Admitted(c) == rlAdmits(windowStart[c], count[c], now)

\* an inbound "ping" packet of socket c
Ping(c) ==
  /\ up
  /\ st[c] = "Active"
  /\ RateLimitStep(c)
  /\ nEvents' = nEvents + 1
  /\ IF Admitted(c)
     THEN /\ inbox' = [inbox EXCEPT ![c] = emitTo(@, [ev |-> "pong", data |-> [ts |-> now]])]
          /\ last' = [event |-> "ping", sid |-> c, admitted |-> TRUE,
                      log |-> "message.ping"]
     ELSE /\ inbox' = inbox
          /\ last' = [event |-> "ping", sid |-> c, admitted |-> FALSE,
                      log |-> "rate_limit.exceeded"]
  /\ UNCHANGED <<up, now, st, user, rooms, nTicks>>

\* variant: io.to(emitter), which does not leave the sender out
RecipientsWithSender(c, emitter) == Members(emitter)

\* socket.to(emitter): every member of the room except the sender
Recipients(c, emitter) == Members(emitter) \ {c}

\* an inbound "message" packet of socket c with first argument arg
Message(c, arg) ==
  /\ up
  /\ st[c] = "Active"
  /\ RateLimitStep(c)
  /\ nEvents' = nEvents + 1
  /\ IF ~Admitted(c)
     THEN /\ last' = [event |-> "message", sid |-> c, arg |-> arg, admitted |-> FALSE,
                      log |-> "rate_limit.exceeded", emitter |-> NoEmitter,
                      to |-> {}, acked |-> FALSE]
          /\ UNCHANGED <<up, st, rooms, inbox>>
     ELSE IF destructureThrows(arg)
     THEN \* uncaught TypeError in the listener: the process dies
          /\ up' = FALSE
          /\ st' = [d \in Sockets |-> IF st[d] \in {"Active", "Authenticated"}
                                      THEN "Closed" ELSE st[d]]
          /\ rooms' = {}
          /\ last' = [event |-> "message", sid |-> c, arg |-> arg, admitted |-> TRUE,
                      log |-> "uncaught.TypeError", emitter |-> NoEmitter,
                      to |-> {}, acked |-> FALSE]
          /\ UNCHANGED inbox
     ELSE LET u == user[c]
              failed == messageChecks(u, arg)
              emitter == resolveEmitter(u, arg)
              payload == buildPayload(u, arg, now)
              sent == failed = "" /\ emitter # NoEmitter
              to == IF sent THEN Recipients(c, emitter) ELSE {}
          IN
          /\ inbox' = [d \in Sockets |->
               LET got == IF d \in to
                          THEN emitTo(inbox[d], [ev |-> "message", data |-> payload])
                          ELSE inbox[d]
               IN IF d = c /\ sent
                  THEN emitTo(got, [ev |-> "message:sent", data |-> payload])
                  ELSE got]
          /\ last' = [event |-> "message", sid |-> c, arg |-> arg, admitted |-> TRUE,
                      log |-> IF sent THEN "message.sent" ELSE failed,
                      emitter |-> IF sent THEN emitter ELSE NoEmitter,
                      to |-> to, acked |-> sent]
          /\ UNCHANGED <<up, st, rooms>>
  /\ UNCHANGED <<now, user, nTicks>>

\* variant: the rooms of the closed socket are kept
DisconnectKeepsRooms(c) ==
  /\ up
  /\ st[c] = "Active"
  /\ st' = [st EXCEPT ![c] = "Closed"]
  /\ rooms' = rooms
  /\ last' = [event |-> "disconnect", sid |-> c, log |-> "connection.closed"]
  /\ UNCHANGED <<up, now, user, count, windowStart, inbox, nEvents, nTicks>>

\* the transport of socket c closes: rooms left, "disconnect" handled
Disconnect(c) ==
  /\ up
  /\ st[c] = "Active"
  /\ st' = [st EXCEPT ![c] = "Closed"]
  /\ rooms' = {m \in rooms : m[2] # c}
  /\ last' = [event |-> "disconnect", sid |-> c, log |-> "connection.closed"]
  /\ UNCHANGED <<up, now, user, count, windowStart, inbox, nEvents, nTicks>>

\* --------------------------------------------------------------- inputs
sAdmin == Str(<<"a", "d", "m", "i", "n">>)
sHi == Str(<<"h", "i">>)
tA == Str(<<"a">>)
tWwwA == Str(<<" ", "W", "W", "W", ".", "A", " ">>)
tB == Str(<<"b">>)
tColon == Str(<<"a", ":", "u", "s", "e", "r", ":", "1">>)
tWww == Str(<<" ", "w", "w", "w", ".">>)

Good(claims) == Jwt("ok", FALSE, claims)

\* README user 1; an admin of the same tenant (tenant written as a www.
\* domain, token in the Bearer header); a user of another tenant; a user of
\* a tenant whose name contains ':'
hUser1 == Handshake(Good(Claims(tA, Num(1), Undef, Arr(<<Num(2)>>), Arr(<<Num(5)>>), Num(1))), NoToken)
hAdmin == Handshake(NoToken, Good(Claims(tWwwA, Num(3), sAdmin, Arr(<<Num(2)>>), Undef, Undef)))
hOther == Handshake(Good(Claims(tB, Num(1), Undef, Arr(<<Num(2)>>), Arr(<<Num(5)>>), Undef)), NoToken)
hColon == Handshake(Good(Claims(tColon, Num(4), Undef, Undef, Undef, Undef)), NoToken)

\* verified tokens whose claims are loosely typed: a string subject, channel
\* ids that are not positive and operator id 0; a channel array mixing an
\* integer with a string, a department claim that is no array and an operator
\* id that is no integer
hLoose == Handshake(Good(Claims(tA, Str(<<"u", "7">>), Undef, Arr(<<Num(0), Num(-1)>>), Undef, Num(0))), NoToken)
hMalformed == Handshake(Good(Claims(tA, Num(6), Undef, Arr(<<Num(2), Str(<<"x">>)>>), Num(5), Frac(1))), NoToken)

hNoToken == Handshake(NoToken, NoToken)
hBadSig == Handshake(Jwt("bad", FALSE, Claims(tA, Num(1), sAdmin, Undef, Undef, Undef)), NoToken)
hExpired == Handshake(Jwt("ok", TRUE, Claims(tA, Num(1), sAdmin, Undef, Undef, Undef)), NoToken)
hNoTenant == Handshake(Good(Claims(tWww, Num(1), sAdmin, Undef, Undef, Undef)), NoToken)
hNoSub == Handshake(Good(Claims(tA, Undef, sAdmin, Undef, Undef, Undef)), NoToken)
hSubZero == Handshake(Good(Claims(tA, Num(0), sAdmin, Undef, Undef, Undef)), NoToken)
hNoTenantNoSub == Handshake(Good(Claims(Undef, Undef, sAdmin, Undef, Undef, Undef)), NoToken)

Handshakes ==
  {hUser1, hAdmin, hOther, hColon, hLoose, hMalformed,
   hNoToken, hBadSig, hExpired, hNoTenant, hNoSub, hSubZero, hNoTenantNoSub}

Repeat(ch, n) == [i \in 1..n |-> ch]
sLimit == Str(Repeat("x", MaxMessageLength))
sOver == Str(Repeat("x", MaxMessageLength + 1))

\* every combination of the three target fields with a short message; the
\* other message values with no target, a user target and a channel target;
\* an absent payload, null and a string in place of the object
Args ==
  {Obj(u, c, d, sHi) : u \in {Undef, Num(0), Num(1)}, c \in {Undef, Num(2), Num(7)},
                       d \in {Undef, Num(5), Num(9)}}
  \cup {Obj(u, c, Undef, m) : u \in {Undef, Num(1)}, c \in {Undef, Num(7)},
                              m \in {Undef, Num(7), sLimit, sOver}}
  \cup {Undef, Null, sHi}

\* the wide specification: every handshake and every argument, short runs
Next ==
  \/ \E c \in Sockets, h \in Handshakes : Authenticate(c, h)
  \/ \E c \in Sockets : OnConnection(c)
  \/ \E c \in Sockets : nEvents < MaxEvents /\ Ping(c)
  \/ \E c \in Sockets, arg \in Args : nEvents < MaxEvents /\ Message(c, arg)
  \/ \E c \in Sockets : Disconnect(c)

Spec == Init /\ [][Next]_vars

\* the flood specification: one client at a time sends long runs of packets
\* while the clock advances; a client stops sending packets that are answered
\* once it holds MaxInbox events
FloodHandshakes == {hUser1}
aValid == Obj(Undef, Num(2), Undef, sHi)
aDenied == Obj(Undef, Num(7), Undef, sHi)
FloodArgs == {aValid, aDenied}
Deltas == {windowMs - 1, windowMs}

OnlySender(c) == \A d \in Sockets \ {c} : count[d] = 0

NextFlood ==
  \/ \E d \in Deltas : nTicks < MaxTicks /\ Tick(d)
  \/ \E c \in Sockets, h \in FloodHandshakes : Authenticate(c, h)
  \/ \E c \in Sockets : OnConnection(c)
  \/ \E c \in Sockets :
       nEvents < FloodEvents /\ OnlySender(c) /\ Len(inbox[c]) < MaxInbox /\ Ping(c)
  \/ \E c \in Sockets, arg \in FloodArgs :
       /\ nEvents < FloodEvents
       /\ OnlySender(c)
       /\ arg = aValid => Len(inbox[c]) < MaxInbox
       /\ Message(c, arg)
  \/ \E c \in Sockets : Disconnect(c)

SpecFlood == Init /\ [][NextFlood]_vars

\* the ordering specification: two clients of one channel, one of them an
\* admin, send up to MaxFifoEvents messages with different texts to the channel
FifoHandshakes == {hUser1, hAdmin}
aFirst == Obj(Undef, Num(2), Undef, Str(<<"m", "1">>))
aSecond == Obj(Undef, Num(2), Undef, Str(<<"m", "2">>))
FifoArgs == {aFirst, aSecond}

NextFifo ==
  \/ \E c \in Sockets, h \in FifoHandshakes : Authenticate(c, h)
  \/ \E c \in Sockets : OnConnection(c)
  \/ \E c \in Sockets, arg \in FifoArgs : nEvents < MaxFifoEvents /\ Message(c, arg)
  \/ \E c \in Sockets : Disconnect(c)

SpecFifo == Init /\ [][NextFifo]_vars

\* the rate specification: one client sends up to RateEvents pings in bursts
\* while the clock advances up to RateTicks times, by one millisecond or
\* around the window width; another client may send Aside pings meanwhile;
\* the clients connect before the first ping
RateDeltas == {1, windowMs - 1, windowMs}

AtBurst ==
  \A c \in Sockets : (count[c] % Burst = 0 /\ count[c] < max) \/ count[c] = max
MaySend(c) == OnlySender(c) \/ count[c] < Aside
Quiet == nEvents = 0

NextRate ==
  \/ \E d \in RateDeltas : nTicks < RateTicks /\ AtBurst /\ Tick(d)
  \/ \E c \in Sockets, h \in FloodHandshakes : Quiet /\ Authenticate(c, h)
  \/ \E c \in Sockets : Quiet /\ OnConnection(c)
  \/ \E c \in Sockets : nEvents < RateEvents /\ MaySend(c) /\ Ping(c)

SpecRate == Init /\ [][NextRate]_vars

\* ================================================================ claims
Accepted(c) == user[c] # NoUser
IdUniverse == {Num(n) : n \in 0..9}

\* every group name the namer computes for tenant t
GroupsFor(t) ==
  {room_tenant(t)}
  \cup {room_user(t, i) : i \in IdUniverse}
  \cup {room_canal(t, i) : i \in IdUniverse}
  \cup {room_dept(t, i) : i \in IdUniverse}
  \cup {room_op(t, i) : i \in IdUniverse}

\* C1: tenant isolation. Two accepted connections of different tenants: the
\* first is a member of no group named for the tenant of the second, and no
\* "message" routed for the first is delivered to the second.
C1_TenantIsolation ==
  \A c \in Sockets, d \in Sockets :
    (Accepted(c) /\ Accepted(d) /\ user[c].tenant # user[d].tenant) =>
      /\ RoomsOf(c) \cap GroupsFor(user[d].tenant) = {}
      /\ (last.event = "message" /\ last.sid = c) => d \notin last.to

\* the (tenant, kind, id) triples a connection of identity u is subscribed under
TriplesOf(u) ==
  {[tenant |-> u.tenant, kind |-> "tenant", id |-> Null],
   [tenant |-> u.tenant, kind |-> "user", id |-> u.id]}
  \cup (IF Truthy(u.operadorId)
        THEN {[tenant |-> u.tenant, kind |-> "op", id |-> u.operadorId]} ELSE {})
  \cup {[tenant |-> u.tenant, kind |-> "canal", id |-> u.canais[i]] : i \in 1..Len(u.canais)}
  \cup {[tenant |-> u.tenant, kind |-> "dept", id |-> u.departamentos[i]] :
          i \in 1..Len(u.departamentos)}

GroupName(x) ==
  CASE x.kind = "tenant" -> room_tenant(x.tenant)
    [] x.kind = "user" -> room_user(x.tenant, x.id)
    [] x.kind = "canal" -> room_canal(x.tenant, x.id)
    [] x.kind = "dept" -> room_dept(x.tenant, x.id)
    [] x.kind = "op" -> room_op(x.tenant, x.id)

\* the triples named for the connections subscribed so far
NamedTriples == UNION {TriplesOf(user[c]) : c \in {d \in Sockets : st[d] = "Active"}}

\* C2: group naming is injective: distinct (tenant, kind, id) triples passed
\* to the namer never get the same name.
C2_NamingInjective ==
  \A x \in NamedTriples, y \in NamedTriples : x # y => GroupName(x) # GroupName(y)

\* a "message" packet was routed: its payload was emitted to a room
Routed == last.event = "message" /\ last.emitter # NoEmitter

\* C3: a request whose to_canal_id (to_departamento_id) is a positive integer
\* is delivered to a group only if the sender holds that channel (department)
\* or is "admin", whichever other target fields are present.
C3_GrantOrAdmin ==
  Routed =>
    LET u == user[last.sid]
        canal == Field(last.arg, "to_canal_id")
        dept == Field(last.arg, "to_departamento_id")
    IN
    /\ isPositiveInt(canal) => (includes(u.canais, canal) \/ isAdmin(u))
    /\ isPositiveInt(dept) => (includes(u.departamentos, dept) \/ isAdmin(u))

\* a non-admin sender reached another connection through a channel it holds
C3_Witness ==
  /\ Routed
  /\ ~isAdmin(user[last.sid])
  /\ isPositiveInt(Field(last.arg, "to_canal_id"))
  /\ last.emitter = room_canal(user[last.sid].tenant, Field(last.arg, "to_canal_id"))
  /\ last.to # {}

\* the step is the handling of an inbound packet of socket c
PacketStep(c) == nEvents' = nEvents + 1 /\ last'.sid = c

\* C4: on an accepted routing request the sender's only new event is one
\* "message:sent" with the payload, never the "message" itself, and every
\* other connection gets the "message" at most once.
C4_Step ==
  \A c \in Sockets :
    (PacketStep(c) /\ last'.event = "message" /\ last'.emitter # NoEmitter) =>
      LET p == [from_user_id |-> user[c].id, message |-> last'.arg.message,
                timestamp |-> now]
      IN
      /\ inbox'[c] = Append(inbox[c], [ev |-> "message:sent", data |-> p])
      /\ \A d \in Sockets \ {c} :
           \/ inbox'[d] = inbox[d]
           \/ inbox'[d] = Append(inbox[d], [ev |-> "message", data |-> p])

C4_SenderExcludedAckedOnce == [][C4_Step]_vars

\* the sender is itself a member of the destination room, which has another
\* member too
C4_Witness ==
  /\ Routed
  /\ st[last.sid] = "Active"
  /\ last.sid \in Members(last.emitter)
  /\ Members(last.emitter) \ {last.sid} # {}
  /\ last.to = Members(last.emitter) \ {last.sid}

\* C5: the limiter is exact. A packet checked less than windowMs after
\* windowStart is counted in that window and admitted iff fewer than max
\* packets were counted in it before; a packet checked windowMs or more after
\* windowStart moves windowStart to now, is counted as the first of the new
\* window and is admitted.
C5_Step ==
  \A c \in Sockets :
    PacketStep(c) =>
      IF now - windowStart[c] >= windowMs
      THEN windowStart'[c] = now /\ count'[c] = 1 /\ last'.admitted
      ELSE /\ windowStart'[c] = windowStart[c]
           /\ count'[c] = count[c] + 1
           /\ last'.admitted <=> count[c] < max

C5_LimiterExact == [][C5_Step]_vars

\* a socket that answered a ping at time 0 is in the window that started at
\* windowMs, where max packets were admitted and one more was rejected
C5_Witness ==
  \E c \in Sockets :
    /\ \E i \in 1..Len(inbox[c]) : inbox[c][i] = [ev |-> "pong", data |-> [ts |-> 0]]
    /\ windowStart[c] = windowMs
    /\ count[c] = max + 1
    /\ last.sid = c /\ last.event \in {"ping", "message"} /\ ~last.admitted

\* C6: a refused handshake has no partial effect. The step that refuses leaves
\* the socket without identity and changes no room and no inbox; a refused
\* socket stays refused, is in no room, has received nothing and no packet of
\* it is ever handled.
C6_Step ==
  \A c \in Sockets :
    /\ (last'.event = "handshake" /\ last'.sid = c /\ last'.err # "" /\ st[c] = "Connecting") =>
         /\ st'[c] = "Refused"
         /\ user'[c] = NoUser
         /\ rooms' = rooms
         /\ inbox' = inbox
    /\ st[c] = "Refused" =>
         /\ st'[c] = "Refused"
         /\ RoomsOf(c)' = {}
         /\ inbox'[c] = <<>>
         /\ user'[c] = NoUser
         /\ ~PacketStep(c)
         /\ ~(last'.event = "connection" /\ last'.sid = c)

C6_RefusedNoEffects == [][C6_Step]_vars

\* a handshake has just been refused while another connection holds rooms
C6_Witness ==
  /\ last.event = "handshake"
  /\ last.err # ""
  /\ st[last.sid] = "Refused"
  /\ RoomsOf(last.sid) = {}
  /\ inbox[last.sid] = <<>>
  /\ rooms # {}

\* C7: a "message" packet that is not routed (failed validation, absent or
\* wrong-typed payload, failed authorization, limiter rejection) leaves the
\* server running and every connection in its state and rooms.
C7_Step ==
  \A c \in Sockets :
    (PacketStep(c) /\ last'.event = "message" /\ last'.emitter = NoEmitter) =>
      up' /\ st' = st /\ rooms' = rooms

C7_RejectionsRecovered == [][C7_Step]_vars

\* the router's rejection reasons, as the request and the identity give them
InvalidPayload(arg) ==
  LET m == Field(arg, "message") IN
  IF m.type = "string" THEN Len(m.val) > MaxMessageLength ELSE TRUE

NoTarget(u, arg) ==
  /\ ~isPositiveInt(Field(arg, "to_user_id"))
  /\ ~isPositiveInt(Field(arg, "to_canal_id"))
  /\ ~isPositiveInt(Field(arg, "to_departamento_id"))
  /\ ~isAdmin(u)

ChannelUnauthorized(u, arg) ==
  /\ isPositiveInt(Field(arg, "to_canal_id"))
  /\ ~includes(u.canais, Field(arg, "to_canal_id"))
  /\ ~isAdmin(u)

DepartmentUnauthorized(u, arg) ==
  /\ isPositiveInt(Field(arg, "to_departamento_id"))
  /\ ~includes(u.departamentos, Field(arg, "to_departamento_id"))
  /\ ~isAdmin(u)

MustReject(u, arg) ==
  \/ InvalidPayload(arg)
  \/ NoTarget(u, arg)
  \/ ChannelUnauthorized(u, arg)
  \/ DepartmentUnauthorized(u, arg)

\* C8: a request that is to be rejected (invalid payload, no target, channel
\* or department unauthorized) delivers no "message" and no "message:sent".
C8_Step ==
  \A c \in Sockets :
    (PacketStep(c) /\ last'.event = "message" /\ MustReject(user[c], last'.arg)) =>
      inbox' = inbox

C8_RejectedNoDelivery == [][C8_Step]_vars

\* a "user" with canais = [2] has posted to channel 7 while another connection
\* of its tenant is open
C8_Witness ==
  /\ last.event = "message"
  /\ last.admitted
  /\ last.arg = Obj(Undef, Num(7), Undef, sHi)
  /\ user[last.sid].canais = <<Num(2)>>
  /\ ~isAdmin(user[last.sid])
  /\ last.log = "message.denied.channel_unauthorized"
  /\ \E d \in Sockets \ {last.sid} :
       st[d] = "Active" /\ user[d].tenant = user[last.sid].tenant

\* C9: a message longer than 500 characters is never delivered nor
\* acknowledged, whatever the targets and the role; a message of exactly 500
\* characters with a valid, authorized target is acknowledged and delivered to
\* the other members of its destination.
C9_Step ==
  \A c \in Sockets :
    (PacketStep(c) /\ last'.event = "message" /\ last'.admitted
       /\ Field(last'.arg, "message").type = "string") =>
      LET m == Field(last'.arg, "message")
          p == [from_user_id |-> user[c].id, message |-> m, timestamp |-> now]
      IN
      /\ Len(m.val) > 500 => (inbox' = inbox /\ last'.emitter = NoEmitter)
      /\ (Len(m.val) = 500 /\ ~NoTarget(user[c], last'.arg)
            /\ ~ChannelUnauthorized(user[c], last'.arg)
            /\ ~DepartmentUnauthorized(user[c], last'.arg)) =>
           /\ last'.emitter # NoEmitter
           /\ inbox'[c] = Append(inbox[c], [ev |-> "message:sent", data |-> p])
           /\ \A d \in Members(last'.emitter) \ {c} :
                inbox'[d] = Append(inbox[d], [ev |-> "message", data |-> p])

C9_LengthBound == [][C9_Step]_vars

\* a message of exactly 500 characters has reached another connection
C9_Witness ==
  /\ Routed
  /\ Len(last.arg.message.val) = 500
  /\ last.to # {}
  /\ \A d \in last.to :
       inbox[d][Len(inbox[d])].ev = "message"
       /\ Len(inbox[d][Len(inbox[d])].data.message.val) = 500

\* C10: every inbound packet is counted by the limiter; a packet counted
\* beyond max emits nothing and closes nothing, and nothing is emitted later
\* for it: events are only ever emitted by the connection handler or while a
\* packet counted within max is handled.
C10_Step ==
  /\ \A c \in Sockets :
       PacketStep(c) =>
         /\ count'[c] = 1 \/ count'[c] = count[c] + 1
         /\ count'[c] > max =>
              inbox' = inbox /\ st' = st /\ rooms' = rooms /\ up' = up
  /\ inbox' # inbox =>
       \/ last'.event = "connection"
       \/ \E c \in Sockets : PacketStep(c) /\ count'[c] <= max

C10_LimiterDrops == [][C10_Step]_vars

\* two packets in a row were rejected, the second a ping, and the socket is
\* still open
C10_Witness ==
  \E c \in Sockets :
    /\ count[c] = max + 2
    /\ last.sid = c /\ last.event = "ping" /\ ~last.admitted
    /\ st[c] = "Active"
    /\ RoomsOf(c) # {}

\* the groups of an identity: tenant and user groups, the operator group when
\* the identity carries an operator id, one group per channel and department
GroupsOfIdentity(u) ==
  {room_tenant(u.tenant), room_user(u.tenant, u.id)}
  \cup (IF u.operadorId # Null THEN {room_op(u.tenant, u.operadorId)} ELSE {})
  \cup {room_canal(u.tenant, u.canais[i]) : i \in 1..Len(u.canais)}
  \cup {room_dept(u.tenant, u.departamentos[i]) : i \in 1..Len(u.departamentos)}

\* C11: an open connection is subscribed to exactly the groups of its
\* identity, the operator group included iff the identity carries an operator
\* id, from subscription until it closes.
C11_SubscriptionSet ==
  \A c \in Sockets : st[c] = "Active" => RoomsOf(c) = GroupsOfIdentity(user[c])

\* the destination the fixed priority gives: user, channel, department, then
\* the tenant group for an admin; NoEmitter when the request is rejected
PriorityDestination(u, arg) ==
  IF isPositiveInt(Field(arg, "to_user_id"))
  THEN room_user(u.tenant, Field(arg, "to_user_id"))
  ELSE IF isPositiveInt(Field(arg, "to_canal_id"))
  THEN room_canal(u.tenant, Field(arg, "to_canal_id"))
  ELSE IF isPositiveInt(Field(arg, "to_departamento_id"))
  THEN room_dept(u.tenant, Field(arg, "to_departamento_id"))
  ELSE IF isAdmin(u) THEN room_tenant(u.tenant)
  ELSE NoEmitter

\* C12: a request that passes validation and authorization is emitted to
\* exactly one room, the one the priority user > channel > department >
\* tenant (admin only) gives for the sender's own tenant, and is rejected when
\* the priority gives none; a sender that is not "admin" never emits to the
\* tenant group of its tenant.
C12_Step ==
  \A c \in Sockets :
    (PacketStep(c) /\ last'.event = "message" /\ last'.admitted
       /\ ~destructureThrows(last'.arg) /\ ~InvalidPayload(last'.arg)
       /\ ~ChannelUnauthorized(user[c], last'.arg)
       /\ ~DepartmentUnauthorized(user[c], last'.arg)) =>
      /\ last'.emitter = PriorityDestination(user[c], last'.arg)
      /\ last'.to = Members(last'.emitter) \ {c}
      /\ last'.emitter = NoEmitter => inbox' = inbox
      /\ ~isAdmin(user[c]) => last'.emitter # room_tenant(user[c].tenant)

C12_DestinationPriority == [][C12_Step]_vars

\* a request naming both a user and a channel reached the user's room
C12_Witness ==
  /\ Routed
  /\ isPositiveInt(Field(last.arg, "to_user_id"))
  /\ isPositiveInt(Field(last.arg, "to_canal_id"))
  /\ last.emitter = room_user(user[last.sid].tenant, Field(last.arg, "to_user_id"))
  /\ last.to # {}

\* the rejection category a log line reports, "" for none
ReasonOfLog(l) ==
  IF l \in {"message.rejected.invalid_type", "message.rejected.too_long"}
  THEN "InvalidPayload"
  ELSE IF l = "message.rejected.no_target" THEN "NoTarget"
  ELSE IF l = "message.denied.channel_unauthorized" THEN "ChannelUnauthorized"
  ELSE IF l = "message.denied.department_unauthorized" THEN "DepartmentUnauthorized"
  ELSE ""

\* the category of the first failing check, in the stated order
FirstFailing(u, arg) ==
  IF InvalidPayload(arg) THEN "InvalidPayload"
  ELSE IF NoTarget(u, arg) THEN "NoTarget"
  ELSE IF ChannelUnauthorized(u, arg) THEN "ChannelUnauthorized"
  ELSE IF DepartmentUnauthorized(u, arg) THEN "DepartmentUnauthorized"
  ELSE ""

\* C13: every rejected routing request is reported with exactly one reason,
\* the one of the first failing check in the order InvalidPayload, NoTarget,
\* ChannelUnauthorized, DepartmentUnauthorized; a non-admin request whose only
\* integer targets are zero or negative is reported as NoTarget.
C13_Step ==
  \A c \in Sockets :
    (PacketStep(c) /\ last'.event = "message" /\ last'.admitted
       /\ last'.arg.type = "object" /\ MustReject(user[c], last'.arg)) =>
      ReasonOfLog(last'.log) = FirstFailing(user[c], last'.arg)

C13_FirstFailingReason == [][C13_Step]_vars

\* the refusal category a handshake log line reports, "" for none
ReasonOfAuthLog(l) ==
  IF l = "auth.failed.no_token" THEN "NoCredential"
  ELSE IF l = "auth.failed.invalid_jwt" THEN "InvalidCredential"
  ELSE IF l = "auth.failed.tenant_missing" THEN "TenantMissing"
  ELSE IF l = "auth.failed.user_id_missing" THEN "SubjectMissing"
  ELSE ""

\* trim, lowercase, strip one leading "www." gives a non-empty string
TenantNormalizes(t) ==
  t.type = "string" /\ stripWww(toLowerCase(trim(t.val))) # <<>>

\* the first failing handshake check in the order NoCredential,
\* InvalidCredential, TenantMissing, SubjectMissing; the subject check asks
\* for a truthy claim when truthySub holds and for a present claim otherwise
FirstFailingAuth(h, truthySub) ==
  LET token == handshakeToken(h) IN
  IF token.type = "undefined" THEN "NoCredential"
  ELSE IF ~(token.sig = "ok" /\ ~token.expired) THEN "InvalidCredential"
  ELSE IF ~TenantNormalizes(token.claims.tenant) THEN "TenantMissing"
  ELSE IF (IF truthySub THEN ~Truthy(token.claims.sub)
                        ELSE token.claims.sub.type = "undefined")
  THEN "SubjectMissing"
  ELSE ""

HandshakeOutcome(truthySub) ==
  last.event = "handshake" =>
    LET r == FirstFailingAuth(last.h, truthySub) IN
    /\ ReasonOfAuthLog(last.log) = r
    /\ st[last.sid] = (IF r = "" THEN "Authenticated" ELSE "Refused")
    /\ (r = "") = Accepted(last.sid)

\* C14 as stated: the handshake accepts iff a credential is present, it
\* verifies, the tenant normalizes to a non-empty string and the subject claim
\* is present, and refuses with the first failing reason otherwise.
C14_AcceptIffPresent == HandshakeOutcome(FALSE)

\* C14, amended: the same with the subject check asking for a truthy subject
\* claim: a subject of 0 or "" is refused as SubjectMissing.
C14_AcceptIffTruthy == HandshakeOutcome(TRUE)

\* a verified token lacking both tenant and subject was refused as TenantMissing
C14_Witness ==
  /\ last.event = "handshake"
  /\ last.h = hNoTenantNoSub
  /\ last.log = "auth.failed.tenant_missing"
  /\ st[last.sid] = "Refused"

AllPositiveInts(a) == \A i \in 1..Len(a) : isPositiveInt(a[i])

WellFormedIdentity(u) ==
  /\ u.tenant # <<>>
  /\ isPositiveInt(u.id)
  /\ AllPositiveInts(u.canais)
  /\ AllPositiveInts(u.departamentos)
  /\ (u.operadorId = Null \/ isPositiveInt(u.operadorId))

\* C15: the identity of every accepted connection has a non-empty tenant, a
\* positive integer user id, channels and departments that are all positive
\* integers, and an operator id that is absent or a positive integer.
C15_IdentityWellFormed ==
  \A c \in Sockets : Accepted(c) => WellFormedIdentity(user[c])

\* a claim that is an array all of whose elements are integers
IntegerArray(v) ==
  /\ v.type = "array"
  /\ ~\E i \in 1..Len(v.val) : v.val[i].type # "number" \/ ~v.val[i].isInt

\* C16: a channels (departments) claim that is not an array of integers gives
\* an empty channel (department) set, a connection with an empty set joins no
\* channel (department) room and is routed to no channel (department) unless
\* "admin"; an operator claim that is no integer gives no operator id, and a
\* connection without operator id joins no operator room.
C16_NoPartialTrust ==
  /\ (last.event = "handshake" /\ Accepted(last.sid)) =>
       LET k == handshakeToken(last.h).claims
           u == user[last.sid]
       IN
       /\ ~IntegerArray(k.canais) => u.canais = <<>>
       /\ ~IntegerArray(k.departamentos) => u.departamentos = <<>>
       /\ ~(k.operador_id.type = "number" /\ k.operador_id.isInt) =>
            u.operadorId = Null
  /\ \A c \in Sockets : \A i \in IdUniverse :
       st[c] = "Active" =>
         /\ user[c].canais = <<>> => room_canal(user[c].tenant, i) \notin RoomsOf(c)
         /\ user[c].departamentos = <<>> => room_dept(user[c].tenant, i) \notin RoomsOf(c)
         /\ user[c].operadorId = Null => room_op(user[c].tenant, i) \notin RoomsOf(c)
  /\ (Routed /\ ~isAdmin(user[last.sid])) =>
       /\ user[last.sid].canais = <<>> =>
            ~isPositiveInt(Field(last.arg, "to_canal_id"))
       /\ user[last.sid].departamentos = <<>> =>
            ~isPositiveInt(Field(last.arg, "to_departamento_id"))

\* the connection whose token mixes an integer and a string in its channels
\* claim asked for that integer channel and was denied
C16_Witness ==
  /\ last.event = "message"
  /\ user[last.sid] = socketUser(handshakeToken(hMalformed).claims)
  /\ user[last.sid].canais = <<>>
  /\ Field(last.arg, "to_canal_id") = Num(2)
  /\ last.log = "message.denied.channel_unauthorized"
  /\ \A i \in IdUniverse : room_canal(user[last.sid].tenant, i) \notin RoomsOf(last.sid)

ReadyEvent(u) ==
  [ev |-> "ready", data |-> [tenant |-> u.tenant, userId |-> u.id, role |-> u.role]]

SessionOrder ==
  {<<"Connecting", "Authenticated">>, <<"Connecting", "Refused">>,
   <<"Authenticated", "Active">>, <<"Authenticated", "Closed">>,
   <<"Active", "Closed">>}

\* C17: the session states follow Connecting, Authenticated, Active, Closed;
\* the connection is registered in all the groups of its identity in one step,
\* the one that emits its "ready", and in no other; a ping or message of the
\* connection is processed only after that; a message routed to a room
\* reaches every other connection registered in it.
C17_Step ==
  \A c \in Sockets :
    /\ st'[c] # st[c] => <<st[c], st'[c]>> \in SessionOrder
    /\ (st[c] = "Authenticated" /\ st'[c] = "Active") =>
         /\ RoomsOf(c) = {}
         /\ RoomsOf(c)' = GroupsOfIdentity(user[c])
         /\ inbox[c] = <<>>
         /\ inbox'[c] = <<ReadyEvent(user[c])>>
    /\ ~(RoomsOf(c)' \subseteq RoomsOf(c)) =>
         (st[c] = "Authenticated" /\ st'[c] = "Active")
    /\ PacketStep(c) => (st[c] = "Active" /\ inbox[c] # <<>>)
    /\ (PacketStep(c) /\ last'.event = "message" /\ last'.emitter # NoEmitter) =>
         \A d \in Sockets \ {c} :
           (st[d] = "Active" /\ last'.emitter \in RoomsOf(d)) =>
             /\ Len(inbox'[d]) = Len(inbox[d]) + 1
             /\ inbox'[d][Len(inbox'[d])].ev = "message"

C17_SessionOrdering == [][C17_Step]_vars

\* C18: a Closed connection is in no room, stays Closed and receives nothing
\* more; a handshake, connection or disconnect of one connection leaves the
\* rooms of every other connection as they are; a connection becomes
\* Authenticated only by a handshake of its own that passes every check, and
\* becomes Active with a limiter of count 0 whose window starts now.
C18_Step ==
  \A c \in Sockets :
    /\ st[c] = "Closed" =>
         /\ RoomsOf(c) = {}
         /\ RoomsOf(c)' = {}
         /\ st'[c] = "Closed"
         /\ inbox'[c] = inbox[c]
    /\ (st'[c] # st[c] /\ up') =>
         \A d \in Sockets \ {c} : RoomsOf(d)' = RoomsOf(d)
    /\ (st[c] = "Connecting" /\ st'[c] = "Authenticated") =>
         /\ last'.event = "handshake" /\ last'.sid = c
         /\ FirstFailingAuth(last'.h, TRUE) = ""
         /\ count[c] = 0
    /\ (st[c] = "Authenticated" /\ st'[c] = "Active") =>
         /\ Accepted(c)
         /\ count'[c] = 0
         /\ windowStart'[c] = now

C18_Closure == [][C18_Step]_vars

\* a message was routed to a room the identity of a Closed connection belongs
\* to, by another connection that became Active after the clock had advanced,
\* and the Closed connection is no recipient
C18_Witness ==
  \E d \in Sockets :
    /\ st[d] = "Closed"
    /\ Routed
    /\ last.sid # d
    /\ last.emitter \in joinedRooms(user[d])
    /\ d \notin last.to
    /\ windowStart[last.sid] > 0

IsPrefix(a, b) == Len(a) <= Len(b) /\ SubSeq(b, 1, Len(a)) = a

\* C19: the events of a connection are counted by its limiter and handled one
\* after the other in the order received: what a connection has received is
\* never reordered, an accepted request puts its "message" last in the box of
\* each recipient and its "message:sent" last in the box of the sender, so
\* two requests of one sender to one room reach each recipient, and are
\* acknowledged, in the order sent.
C19_Step ==
  /\ \A d \in Sockets : IsPrefix(inbox[d], inbox'[d])
  /\ \A c \in Sockets :
       (PacketStep(c) /\ last'.event = "message") =>
         /\ count'[c] = rlCount(windowStart[c], count[c], now)
         /\ last'.emitter # NoEmitter =>
              LET p == buildPayload(user[c], last'.arg, now) IN
              /\ inbox'[c] = inbox[c] \o <<[ev |-> "message:sent", data |-> p]>>
              /\ \A d \in last'.to :
                   inbox'[d] = inbox[d] \o <<[ev |-> "message", data |-> p]>>

C19_Fifo == [][C19_Step]_vars

\* one sender had "m1" then "m2" accepted and then "m1" again: it holds the
\* three acknowledgements in that order and the recipient the three messages
C19_Witness ==
  \E c \in Sockets, d \in Sockets :
    /\ c # d
    /\ Len(inbox[c]) = 4 /\ Len(inbox[d]) = 4
    /\ \A i \in 2..4 : inbox[c][i].ev = "message:sent" /\ inbox[d][i].ev = "message"
    /\ \A i \in 2..4 : inbox[c][i].data = inbox[d][i].data
    /\ inbox[d][2].data.message = aFirst.message
    /\ inbox[d][3].data.message = aSecond.message
    /\ inbox[d][4].data.message = aFirst.message

\* the times at which the pings of connection c were admitted
AdmittedAt(c) ==
  LET IsPong(e) == e.ev = "pong"
      pongs == SelectSeq(inbox[c], IsPong)
  IN [i \in 1..Len(pongs) |-> pongs[i].data.ts]

TwiceMaxBound ==
  \A c \in Sockets :
    Len(inbox[c]) > 2 * max =>
      LET ts == AdmittedAt(c) IN
      \A i \in 1..(Len(ts) - 2 * max) : ts[i + 2 * max] - ts[i] > windowMs

\* C20: any 2 * max + 1 admitted events of one connection span more than
\* windowMs, that is, no interval of length windowMs holds more than 2 * max
\* of them; a packet of one connection is admitted on the count and window of
\* that connection alone and leaves those of every other connection as they
\* are.
C20_Step ==
  /\ TwiceMaxBound'
  /\ \A c \in Sockets :
       PacketStep(c) =>
         /\ last'.admitted = (rlCount(windowStart[c], count[c], now) <= max)
         /\ \A d \in Sockets \ {c} :
              count'[d] = count[d] /\ windowStart'[d] = windowStart[d]

C20_BoundedRate == [][C20_Step]_vars

\* a connection had 2 * max pings admitted within less than windowMs, across
\* a window boundary, and one more later; then another connection sent a ping
C20_Witness ==
  \E c \in Sockets, d \in Sockets :
    LET ts == AdmittedAt(c) IN
    /\ Len(ts) = 2 * max + 1
    /\ ts[2 * max] - ts[1] < windowMs
    /\ ts[2 * max + 1] - ts[1] > windowMs
    /\ d # c
    /\ last.event = "ping" /\ last.sid = d /\ last.admitted
    /\ count[c] > 0

====
